---- MODULE Spec2Model ----
(***************************************************************************)
(* Model of blender-auto-render.                                           *)
(*                                                                         *)
(*   pipeline.py  the launcher: parses the CLI arguments, validates the    *)
(*                input script, assembles the command line of the host     *)
(*                application, runs it and reports the outcome.            *)
(*   scene.py     the scene generator, run by the host application when    *)
(*                it reaches the "--python scene.py" argument.             *)
(*                                                                         *)
(* The host application is the environment of both programs.  It is        *)
(* modelled by what the programs rely on: it handles its command line      *)
(* arguments one at a time in the order given, a "--python-expr" argument  *)
(* assigns one scene property, and an f-curve holds at most one keyframe   *)
(* per frame number (keyframe_insert at a frame that already has a         *)
(* keyframe replaces it).                                                  *)
(*                                                                         *)
(* Lengths are in units of 1/20 (SPACING 1.5 is 30, the plate thickness    *)
(* 0.05 is 1); grid coordinates handed to get_core_position are doubled,   *)
(* so that the half coordinates the script uses stay integers.  Angles     *)
(* are in units of pi.  A Python string built with + is the sequence of    *)
(* its pieces; str(int) is the sequence of its decimal digits.             *)
(***************************************************************************)
EXTENDS Integers, Sequences, FiniteSets, TLC

VARIABLES
    args,            \* pipeline.py: the parsed CLI arguments
    env,             \* what the launcher finds on the machine
    pc,              \* pipeline.py: position of main()
    total_frames,    \* pipeline.py: main's local
    crf_value,       \* pipeline.py: main's local
    command,         \* pipeline.py: main's local, the argv of the host
    output,          \* pipeline.py: lines printed so far
    exit_code,       \* pipeline.py: exit code of the launcher, -1 while running
    spawns,          \* number of host processes spawned by this run
    host,            \* the host process: argument index, exit status
    scene,           \* the host's scene properties (bpy.context.scene)
    GRID_SIZE,       \* scene.py: the configured grid extent, the same on each axis
    spc,             \* scene.py: position of the __main__ block
    anim_end_frame,  \* scene.py: the end frame read back from the host
    objects,         \* scene.py: grid and cooling objects (bpy.data.objects)
    i,               \* scene.py: index of the packet loop
    start_coord,     \* scene.py: locals of the packet loop
    end_coord,
    start_frame,
    packet,          \* scene.py: the packet of the current iteration
    anim_coll,       \* scene.py: names linked into "AnimationObjects"
    pivot            \* scene.py: the CameraPivot object

vars == <<args, env, pc, total_frames, crf_value, command, output, exit_code,
          spawns, host, scene, GRID_SIZE, spc,
          anim_end_frame, objects, i, start_coord, end_coord, start_frame,
          packet, anim_coll, pivot>>

launcherVars == <<args, env, pc, total_frames, crf_value, command, output,
                  exit_code, spawns>>
scriptVars == <<spc, anim_end_frame, objects, i, start_coord, end_coord,
                start_frame, packet, anim_coll, pivot>>

(***************************************************************************)
(* Bounds and input domains                                                *)
(***************************************************************************)
MaxGrid == 2

GridSizes == 1..MaxGrid
Codecs == {"AV1", "H264", "av1"}
Crfs == {"20", "28"}
FpsValues == {30}
Durations == {2, 20}
HostFrameEnds == {250, 600}      \* frame_end of the host's startup scene
ExitStatuses == {0, 1, -11}      \* returncode of the host process

(***************************************************************************)
(* Strings                                                                 *)
(***************************************************************************)
DigitChar == <<"0", "1", "2", "3", "4", "5", "6", "7", "8", "9">>

RECURSIVE Str(_)
Str(n) ==
    IF n < 0 THEN <<"-">> \o Str(-n)
    ELSE IF n < 10 THEN <<DigitChar[n + 1]>>
    ELSE Str(n \div 10) \o <<DigitChar[(n % 10) + 1]>>

DigitValue(c) == CHOOSE d \in 0..9 : DigitChar[d + 1] = c

RECURSIVE ParseNat(_)
ParseNat(s) ==
    IF Len(s) = 1 THEN DigitValue(s[1])
    ELSE 10 * ParseNat(SubSeq(s, 1, Len(s) - 1)) + DigitValue(s[Len(s)])

ParseInt(s) == IF Head(s) = "-" THEN -ParseNat(Tail(s)) ELSE ParseNat(s)

(***************************************************************************)
(* pipeline.py                                                             *)
(***************************************************************************)
\* lines 79: total_frames = args.fps * args.duration
TotalFrames(fps, duration) == fps * duration

\* the AV1 branch of lines 82-84 lost
CrfValue_NoPreset(codec, crf) == crf

\* lines 82-87: the codec-specific quality token
CrfValue(codec, crf) == IF codec = "AV1" THEN "MEDIUM" ELSE crf

\* line 76: os.path.join(os.getcwd(), args.output_path), output_path relative
RenderOutputPathArg(cwd, output_path) == <<cwd, "/", output_path>>

\* lines 90-107: the argv of the host, one sequence of pieces per argument
Command(a, cwd, total, crf) ==
    << <<a.blender_path>>,
       <<"--background">>,
       <<"--python">>, <<a.input_script>>,
       <<"--render-format">>, <<"FFMPEG">>,
       <<"--render-output">>, RenderOutputPathArg(cwd, a.output_path),
       <<"--python-expr">>,
       <<"import bpy; bpy.context.scene.render.resolution_x = ">> \o Str(a.width),
       <<"--python-expr">>,
       <<"import bpy; bpy.context.scene.render.resolution_y = ">> \o Str(a.height),
       <<"--python-expr">>,
       <<"import bpy; bpy.context.scene.render.fps = ">> \o Str(a.fps),
       <<"--python-expr">>,
       <<"import bpy; bpy.context.scene.frame_end = ">> \o Str(total),
       <<"--python-expr">>,
       <<"import bpy; bpy.context.scene.render.ffmpeg.format = '", a.container, "'">>,
       <<"--python-expr">>,
       <<"import bpy; bpy.context.scene.render.ffmpeg.codec = '", a.codec, "'">>,
       <<"--python-expr">>,
       <<"import bpy; bpy.context.scene.render.ffmpeg.constant_rate_factor = '", crf, "'">>,
       <<"--render-anim">> >>

\* the check of lines 68-70 lost
Validate_NoCheck ==
    /\ pc = "Validating"
    /\ output' = Append(output, <<"--- Starting CI/CD Render Pipeline with CLI Arguments ---">>)
    /\ pc' = "Assembling"
    /\ UNCHANGED <<args, env, total_frames, crf_value, command, exit_code,
                   spawns, host, scene, GRID_SIZE, scriptVars>>

\* lines 62-70: the banner, then the check of the input script
Validate ==
    /\ pc = "Validating"
    /\ IF env.input_script_exists
       THEN /\ output' = Append(output, <<"--- Starting CI/CD Render Pipeline with CLI Arguments ---">>)
            /\ pc' = "Assembling"
            /\ UNCHANGED exit_code
       ELSE /\ output' = output \o
                   << <<"--- Starting CI/CD Render Pipeline with CLI Arguments ---">>,
                      <<"Error: Input script not found at '", args.input_script, "'">> >>
            /\ pc' = "Exited"
            /\ exit_code' = 1
    /\ UNCHANGED <<args, env, total_frames, crf_value, command, spawns, host,
                   scene, GRID_SIZE, scriptVars>>

\* lines 72-111: output directory, derived values, the command
Assemble ==
    /\ pc = "Assembling"
    /\ IF env.makedirs_ok
       THEN /\ total_frames' = TotalFrames(args.fps, args.duration)
            /\ crf_value' = CrfValue(args.codec, args.crf)
            /\ command' = Command(args, env.cwd, total_frames', crf_value')
            /\ output' = output \o << <<"Executing Blender command:">>,
                                      <<"--- Blender Output ---">> >>
            /\ pc' = "Invoking"
            /\ UNCHANGED exit_code
       ELSE \* os.makedirs raises OSError: uncaught, the interpreter exits 1
            /\ pc' = "Exited"
            /\ exit_code' = 1
            /\ UNCHANGED <<total_frames, crf_value, command, output>>
    /\ UNCHANGED <<args, env, spawns, host, scene, GRID_SIZE, scriptVars>>

\* line 114, first half: subprocess.run spawns the host, or raises
Invoke ==
    /\ pc = "Invoking"
    /\ \/ /\ env.spawn = "ok"
          /\ spawns' = spawns + 1
          /\ host' = [state |-> "running", arg |-> 2, status |-> 0]
          /\ pc' = "Waiting"
          /\ UNCHANGED <<output, exit_code>>
       \/ /\ env.spawn = "FileNotFoundError"          \* lines 119-121
          /\ output' = Append(output,
                 <<"--- ERROR: Blender executable not found at '", args.blender_path, "'. ---">>)
          /\ pc' = "Exited"
          /\ exit_code' = 1
          /\ UNCHANGED <<spawns, host>>
       \/ /\ env.spawn = "PermissionError"            \* uncaught OSError
          /\ pc' = "Exited"
          /\ exit_code' = 1
          /\ UNCHANGED <<spawns, host, output>>
    /\ UNCHANGED <<args, env, total_frames, crf_value, command, scene,
                   GRID_SIZE, scriptVars>>

\* check=True taken to mean "returncode > 0": a host killed by a signal
\* (negative returncode) is reported as a success
Reap_PositiveOnly ==
    /\ pc = "Waiting"
    /\ host.state = "exited"
    /\ IF host.status <= 0
       THEN /\ output' = output \o << <<"--- End of Blender Output ---">>,
                                      <<"SUCCESS: Render complete.">>,
                                      <<"Video saved to: ", args.output_path>> >>
            /\ exit_code' = 0
       ELSE /\ output' = Append(output,
                   <<"--- ERROR: Blender returned a non-zero exit code. ---">>)
            /\ exit_code' = 1
    /\ pc' = "Exited"
    /\ UNCHANGED <<args, env, total_frames, crf_value, command, spawns, host,
                   scene, GRID_SIZE, scriptVars>>

\* line 114, second half, and lines 115-125: the host has exited
Reap ==
    /\ pc = "Waiting"
    /\ host.state = "exited"
    /\ IF host.status = 0
       THEN /\ output' = output \o << <<"--- End of Blender Output ---">>,
                                      <<"SUCCESS: Render complete.">>,
                                      <<"Video saved to: ", args.output_path>> >>
            /\ exit_code' = 0
       ELSE /\ output' = Append(output,
                   <<"--- ERROR: Blender returned a non-zero exit code. ---">>)
            /\ exit_code' = 1
    /\ pc' = "Exited"
    /\ UNCHANGED <<args, env, total_frames, crf_value, command, spawns, host,
                   scene, GRID_SIZE, scriptVars>>

(***************************************************************************)
(* The host application handling its command line, one argument at a time  *)
(***************************************************************************)
HostAt(flag) ==
    /\ pc = "Waiting"
    /\ host.state = "running"
    /\ spc \in {"idle", "done"}
    /\ host.arg <= Len(command)
    /\ command[host.arg] = <<flag>>

\* pipeline.py line 92
HostBackground ==
    /\ HostAt("--background")
    /\ host' = [host EXCEPT !.arg = @ + 1]
    /\ UNCHANGED <<launcherVars, scene, GRID_SIZE, scriptVars>>

\* pipeline.py line 93: the host runs the scene script, now
HostPython ==
    /\ HostAt("--python")
    /\ host' = [host EXCEPT !.arg = @ + 2]
    /\ spc' = "clean_scene"
    /\ UNCHANGED <<launcherVars, scene, GRID_SIZE, anim_end_frame, objects, i,
                   start_coord, end_coord, start_frame, packet, anim_coll, pivot>>

\* pipeline.py lines 94-95
HostRenderFormat ==
    /\ HostAt("--render-format")
    /\ scene' = [scene EXCEPT !.file_format = command[host.arg + 1][1]]
    /\ host' = [host EXCEPT !.arg = @ + 2]
    /\ UNCHANGED <<launcherVars, GRID_SIZE, scriptVars>>

HostRenderOutput ==
    /\ HostAt("--render-output")
    /\ scene' = [scene EXCEPT !.filepath = command[host.arg + 1]]
    /\ host' = [host EXCEPT !.arg = @ + 2]
    /\ UNCHANGED <<launcherVars, GRID_SIZE, scriptVars>>

\* The assignment a "--python-expr" argument of lines 98-104 performs
ExecExpr(sc, expr) ==
    LET target == Head(expr) IN
    IF target = "import bpy; bpy.context.scene.render.resolution_x = "
        THEN [sc EXCEPT !.resolution_x = ParseInt(Tail(expr))]
    ELSE IF target = "import bpy; bpy.context.scene.render.resolution_y = "
        THEN [sc EXCEPT !.resolution_y = ParseInt(Tail(expr))]
    ELSE IF target = "import bpy; bpy.context.scene.render.fps = "
        THEN [sc EXCEPT !.fps = ParseInt(Tail(expr))]
    ELSE IF target = "import bpy; bpy.context.scene.frame_end = "
        THEN [sc EXCEPT !.frame_end = ParseInt(Tail(expr))]
    ELSE IF target = "import bpy; bpy.context.scene.render.ffmpeg.format = '"
        THEN [sc EXCEPT !.ffmpeg_format = expr[2]]
    ELSE IF target = "import bpy; bpy.context.scene.render.ffmpeg.codec = '"
        THEN [sc EXCEPT !.ffmpeg_codec = expr[2]]
    ELSE IF target = "import bpy; bpy.context.scene.render.ffmpeg.constant_rate_factor = '"
        THEN [sc EXCEPT !.ffmpeg_constant_rate_factor = expr[2]]
    ELSE sc

HostPythonExpr ==
    /\ HostAt("--python-expr")
    /\ scene' = ExecExpr(scene, command[host.arg + 1])
    /\ host' = [host EXCEPT !.arg = @ + 2]
    /\ UNCHANGED <<launcherVars, GRID_SIZE, scriptVars>>

\* pipeline.py line 106: the render, after which the host exits
HostRenderAnim ==
    /\ HostAt("--render-anim")
    /\ \E status \in ExitStatuses :
          host' = [host EXCEPT !.state = "exited", !.status = status]
    /\ UNCHANGED <<launcherVars, scene, GRID_SIZE, scriptVars>>

(***************************************************************************)
(* scene.py                                                                *)
(***************************************************************************)
SPACING == 30                     \* 1.5
COOLING_PLATE_THICKNESS == 1      \* 0.05
NUM_PACKETS == 2                  \* 30 in scene.py; the loop is bounded here
PACKET_TRAVEL_TIME == 10

\* lines 16-18: the three extents are configured alike
GRID_SIZE_X == GRID_SIZE
GRID_SIZE_Y == GRID_SIZE
GRID_SIZE_Z == GRID_SIZE

Abs(n) == IF n < 0 THEN -n ELSE n
Max(a, b) == IF a >= b THEN a ELSE b

\* the z component taken from y
get_core_position_YForZ(x2, y2, z2) ==
    <<(x2 * SPACING) \div 2, (y2 * SPACING) \div 2, (y2 * SPACING) \div 2>>

\* lines 40-41; x2, y2, z2 are the doubled coordinates
get_core_position(x2, y2, z2) ==
    <<(x2 * SPACING) \div 2, (y2 * SPACING) \div 2, (z2 * SPACING) \div 2>>

\* bpy.data.objects.new(name, data), as the script uses it
NewObject(name, data, coll) ==
    [name |-> name, data |-> data, coll |-> coll,
     location |-> <<0, 0, 0>>, scale |-> <<20, 20, 20>>]

\* lines 77-86
create_base_models ==
    << NewObject(<<"Base_ForthCore">>, "Base_ForthCore_Mesh", "BaseModels"),
       NewObject(<<"Base_NoCRouter">>, "Base_NoCRouter_Mesh", "BaseModels") >>

\* lines 95 and 98: f"Core_{x}_{y}_{z}", f"Router_{x}_{y}_{z}"
GridName(prefix, x, y, z) ==
    <<prefix>> \o Str(x) \o <<"_">> \o Str(y) \o <<"_">> \o Str(z)

\* lines 88-100: the objects in creation order, z outermost, x innermost,
\* the core of a cell before its router
create_grid(core_base, router_base) ==
    [k \in 1..(2 * GRID_SIZE_Z * GRID_SIZE_Y * GRID_SIZE_X) |->
        LET c == (k - 1) \div 2
            x == c % GRID_SIZE_X
            y == (c \div GRID_SIZE_X) % GRID_SIZE_Y
            z == c \div (GRID_SIZE_X * GRID_SIZE_Y)
            pos == get_core_position(2 * x, 2 * y, 2 * z)
        IN  IF k % 2 = 1
            THEN [NewObject(GridName("Core_", x, y, z), core_base.data, "ForthGrid")
                    EXCEPT !.location = pos]
            ELSE [NewObject(GridName("Router_", x, y, z), router_base.data, "ForthGrid")
                    EXCEPT !.location = pos]]

\* lines 102-112
create_chiplets ==
    LET size_x == GRID_SIZE_X * SPACING
        size_y == GRID_SIZE_Y * SPACING
        size_z == GRID_SIZE_Z * SPACING
        center_pos == get_core_position(GRID_SIZE_X - 1, GRID_SIZE_Y - 1, GRID_SIZE_Z - 1)
    IN  << [NewObject(<<"Chiplet_Box">>, "Chiplet_Box_Mesh", "Chiplets")
              EXCEPT !.location = center_pos, !.scale = <<size_x, size_y, size_z>>] >>

\* range(GRID_SIZE) in place of range(GRID_SIZE - 1)
plate_range_OneMore(size) == 1..size

\* lines 126, 131, 136: range(GRID_SIZE - 1), counted from 1
plate_range(size) == 1..(size - 1)

\* lines 114-140: the plates in creation order, Z then Y then X
create_cooling_grid ==
    LET plate_mesh == "BasePlate_Mesh"
        grid_width == (GRID_SIZE_X - 1) * SPACING
        grid_depth == (GRID_SIZE_Y - 1) * SPACING
        grid_height == (GRID_SIZE_Z - 1) * SPACING
        half_w == (2 * grid_width) \div (2 * SPACING)     \* doubled
        half_d == (2 * grid_depth) \div (2 * SPACING)
        half_h == (2 * grid_height) \div (2 * SPACING)
        plates_z == [z \in plate_range(GRID_SIZE_Z) |->
            [NewObject(<<"Plate_Z_">> \o Str(z - 1), plate_mesh, "CoolingGrid")
               EXCEPT !.location = get_core_position(half_w, half_d, 2 * (z - 1) + 1),
                      !.scale = <<grid_width + SPACING, grid_depth + SPACING,
                                  COOLING_PLATE_THICKNESS>>]]
        plates_y == [y \in plate_range(GRID_SIZE_Y) |->
            [NewObject(<<"Plate_Y_">> \o Str(y - 1), plate_mesh, "CoolingGrid")
               EXCEPT !.location = get_core_position(half_w, 2 * (y - 1) + 1, half_h),
                      !.scale = <<grid_width + SPACING, COOLING_PLATE_THICKNESS,
                                  grid_height + SPACING>>]]
        plates_x == [x \in plate_range(GRID_SIZE_X) |->
            [NewObject(<<"Plate_X_">> \o Str(x - 1), plate_mesh, "CoolingGrid")
               EXCEPT !.location = get_core_position(2 * (x - 1) + 1, half_d, half_h),
                      !.scale = <<COOLING_PLATE_THICKNESS, grid_depth + SPACING,
                                  grid_height + SPACING>>]]
    IN  plates_z \o plates_y \o plates_x

(***************************************************************************)
(* Keyframes.  An object carries, per animated property, the f-curve's     *)
(* keyframes (at most one per frame) and, as a history, the calls made.    *)
(***************************************************************************)
Channels(data_path) == IF data_path \in {"location", "rotation_euler"} THEN 3 ELSE 1

\* obj.keyframe_insert(data_path=..., frame=...): keys the current value
keyframe_insert(obj, data_path, frame) ==
    LET key == [frame |-> frame, value |-> obj[data_path],
                interpolation |-> [c \in 1..Channels(data_path) |-> "BEZIER"]]
    IN  [obj EXCEPT
           !.tracks[data_path] = {k \in @ : k.frame # frame} \cup {key},
           !.calls = Append(@, [data_path |-> data_path, frame |-> frame,
                                value |-> obj[data_path]])]

NoTracks == [p \in {"location", "hide_viewport", "hide_render", "rotation_euler"} |-> {}]

NoObject ==
    [name |-> <<>>, location |-> <<0, 0, 0>>, rotation_euler |-> <<0, 0, 0>>,
     hide_viewport |-> FALSE, hide_render |-> FALSE,
     tracks |-> NoTracks, calls |-> <<>>]

\* the first hidden keyframe put at start_frame, where the visible one
\* then replaces it
create_packet_HiddenAtStart(name, start_frame_) ==
    LET p0 == [NoObject EXCEPT !.name = name,
                               !.hide_viewport = TRUE, !.hide_render = TRUE]
        p1 == keyframe_insert(p0, "hide_viewport", start_frame_)
        p2 == keyframe_insert(p1, "hide_render", start_frame_)
        p3 == [p2 EXCEPT !.hide_viewport = FALSE, !.hide_render = FALSE]
        p4 == keyframe_insert(p3, "hide_viewport", start_frame_)
    IN  keyframe_insert(p4, "hide_render", start_frame_)

\* lines 144-155
create_packet(name, start_frame_) ==
    LET p0 == [NoObject EXCEPT !.name = name,
                               !.hide_viewport = TRUE, !.hide_render = TRUE]
        p1 == keyframe_insert(p0, "hide_viewport", start_frame_ - 1)
        p2 == keyframe_insert(p1, "hide_render", start_frame_ - 1)
        p3 == [p2 EXCEPT !.hide_viewport = FALSE, !.hide_render = FALSE]
        p4 == keyframe_insert(p3, "hide_viewport", start_frame_)
    IN  keyframe_insert(p4, "hide_render", start_frame_)

\* the segment's duration taken to be its length, PACKET_TRAVEL_TIME lost
segment_end_NoTravelTime(frame, dist) == frame + dist

\* lines 164, 167, 170: the frame at which a segment of length dist ends
segment_end(frame, dist) == frame + dist * PACKET_TRAVEL_TIME

\* lines 157-176
animate_packet_route(pkt, start_frame_, start, end, end_frame) ==
    LET current_frame == start_frame_
        p0 == [pkt EXCEPT !.location =
                  get_core_position(2 * start[1], 2 * start[2], 2 * start[3])]
        p1 == keyframe_insert(p0, "location", current_frame)
        dist_x == Abs(end[1] - start[1])
        dist_y == Abs(end[2] - start[2])
        dist_z == Abs(end[3] - start[3])
        frame_after_x == segment_end(start_frame_, dist_x)
        p2 == [p1 EXCEPT !.location =
                  get_core_position(2 * end[1], 2 * start[2], 2 * start[3])]
        p3 == keyframe_insert(p2, "location", frame_after_x)
        frame_after_y == segment_end(frame_after_x, dist_y)
        p4 == [p3 EXCEPT !.location =
                  get_core_position(2 * end[1], 2 * end[2], 2 * start[3])]
        p5 == keyframe_insert(p4, "location", frame_after_y)
        frame_after_z == segment_end(frame_after_y, dist_z)
        p6 == [p5 EXCEPT !.location =
                  get_core_position(2 * end[1], 2 * end[2], 2 * end[3])]
        p7 == keyframe_insert(p6, "location", frame_after_z)
        p8 == [p7 EXCEPT !.hide_viewport = TRUE, !.hide_render = TRUE]
        p9 == keyframe_insert(p8, "hide_viewport", frame_after_z + 1)
    IN  keyframe_insert(p9, "hide_render", frame_after_z + 1)

\* lines 225-251, the part that animates the pivot
setup_camera_rig(end_frame) ==
    LET center_of_grid == get_core_position(GRID_SIZE_X - 1, GRID_SIZE_Y - 1, GRID_SIZE_Z - 1)
        v0 == [NoObject EXCEPT !.name = <<"CameraPivot">>, !.location = center_of_grid]
        v1 == [v0 EXCEPT !.rotation_euler = <<0, 0, 0>>]
        v2 == keyframe_insert(v1, "rotation_euler", 0)
        v3 == [v2 EXCEPT !.rotation_euler = <<0, 0, 2>>]
        v4 == keyframe_insert(v3, "rotation_euler", end_frame)
    IN  \* fcurves.find('rotation_euler', index=2): every keyframe made LINEAR
        [v4 EXCEPT !.tracks["rotation_euler"] =
            {[k EXCEPT !.interpolation[3] = "LINEAR"] : k \in @}]

\* line 218
max_start_frame(end_frame) == Max(0, end_frame - 500)

\* line 219: the values random.randint(0, max_start_frame) is let to return
StartFrames(end_frame) ==
    IF max_start_frame(end_frame) > 0
    THEN {0, max_start_frame(end_frame)}
    ELSE {0}

\* the re-roll loop never entered
reroll_needed_Never(start, end) == FALSE

\* line 215: the condition of the re-roll loop
reroll_needed(start, end) == start = end

\* randint(0, GRID_SIZE_X-1), randint(0, GRID_SIZE_Y-1), randint(0, GRID_SIZE_Z-1)
RandomCoord ==
    (0..(GRID_SIZE_X - 1)) \X (0..(GRID_SIZE_Y - 1)) \X (0..(GRID_SIZE_Z - 1))

\* lines 181-182
CleanScene ==
    /\ spc = "clean_scene"
    /\ objects' = <<>>
    /\ spc' = "read_frame_end"
    /\ UNCHANGED <<launcherVars, host, scene, GRID_SIZE, anim_end_frame, i,
                   start_coord, end_coord, start_frame, packet, anim_coll, pivot>>

\* line 185
ReadFrameEnd ==
    /\ spc = "read_frame_end"
    /\ anim_end_frame' = scene.frame_end
    /\ spc' = "create_grid"
    /\ UNCHANGED <<launcherVars, host, scene, GRID_SIZE, objects, i,
                   start_coord, end_coord, start_frame, packet, anim_coll, pivot>>

\* lines 199-202
CreateGrid ==
    /\ spc = "create_grid"
    /\ LET base == create_base_models
       IN  objects' = objects \o base \o create_grid(base[1], base[2])
    /\ spc' = "create_chiplets"
    /\ UNCHANGED <<launcherVars, host, scene, GRID_SIZE, anim_end_frame, i,
                   start_coord, end_coord, start_frame, packet, anim_coll, pivot>>

\* lines 203-204
CreateChiplets ==
    /\ spc = "create_chiplets"
    /\ objects' = objects \o create_chiplets
    /\ spc' = "create_cooling_grid"
    /\ UNCHANGED <<launcherVars, host, scene, GRID_SIZE, anim_end_frame, i,
                   start_coord, end_coord, start_frame, packet, anim_coll, pivot>>

\* lines 205-211
CreateCoolingGrid ==
    /\ spc = "create_cooling_grid"
    /\ objects' = objects \o create_cooling_grid
    /\ anim_coll' = <<>>
    /\ i' = 0
    /\ spc' = "packet_loop"
    /\ UNCHANGED <<launcherVars, host, scene, GRID_SIZE, anim_end_frame,
                   start_coord, end_coord, start_frame, packet, pivot>>

\* lines 212-214: the next iteration draws its two coordinates
PickCoords ==
    /\ spc = "packet_loop"
    /\ i < NUM_PACKETS
    /\ \E s \in RandomCoord, e \in RandomCoord :
          /\ start_coord' = s
          /\ end_coord' = e
    /\ spc' = "reroll"
    /\ UNCHANGED <<launcherVars, host, scene, GRID_SIZE, anim_end_frame,
                   objects, i, start_frame, packet, anim_coll, pivot>>

\* lines 215-216
Reroll ==
    /\ spc = "reroll"
    /\ reroll_needed(start_coord, end_coord)
    /\ \E e \in RandomCoord : end_coord' = e
    /\ UNCHANGED <<launcherVars, host, scene, GRID_SIZE, spc, anim_end_frame,
                   objects, i, start_coord, start_frame, packet, anim_coll,
                   pivot>>

\* lines 217-222
MakePacket ==
    /\ spc = "reroll"
    /\ ~reroll_needed(start_coord, end_coord)
    /\ \E f \in StartFrames(anim_end_frame) :
          LET name == <<"Packet_">> \o Str(i)
              created == create_packet(name, f)
          IN  /\ start_frame' = f
              /\ packet' = animate_packet_route(created, f, start_coord,
                                                end_coord, anim_end_frame)
              /\ anim_coll' = Append(anim_coll, name)
    /\ spc' = "packet_made"
    /\ UNCHANGED <<launcherVars, host, scene, GRID_SIZE, anim_end_frame,
                   objects, i, start_coord, end_coord, pivot>>

\* line 212: the for statement moves on; the locals of the finished
\* iteration are dead from here on
NextPacket ==
    /\ spc = "packet_made"
    /\ i' = i + 1
    /\ packet' = NoObject
    /\ start_coord' = <<0, 0, 0>>
    /\ end_coord' = <<0, 0, 0>>
    /\ start_frame' = 0
    /\ spc' = "packet_loop"
    /\ UNCHANGED <<launcherVars, host, scene, GRID_SIZE, anim_end_frame,
                   objects, anim_coll, pivot>>

\* lines 224-251, once the loop of line 212 is exhausted
CameraRig ==
    /\ spc = "packet_loop"
    /\ i = NUM_PACKETS
    /\ pivot' = setup_camera_rig(anim_end_frame)
    /\ spc' = "final_setup"
    /\ UNCHANGED <<launcherVars, host, scene, GRID_SIZE, anim_end_frame,
                   objects, i, start_coord, end_coord, start_frame, packet, anim_coll>>

\* lines 253-274
FinalSetup ==
    /\ spc = "final_setup"
    /\ scene' = [scene EXCEPT !.engine = "BLENDER_EEVEE"]
    /\ spc' = "done"
    /\ UNCHANGED <<launcherVars, host, GRID_SIZE, anim_end_frame, objects, i,
                   start_coord, end_coord, start_frame, packet, anim_coll, pivot>>

(***************************************************************************)
(* The run                                                                 *)
(***************************************************************************)
Init ==
    /\ args \in [blender_path : {"blender"}, input_script : {"scene.py"},
                 output_path : {"render/movie.mkv"}, width : {3840},
                 height : {2160}, fps : FpsValues, duration : Durations,
                 container : {"MKV"}, codec : Codecs, crf : Crfs]
    /\ env \in [input_script_exists : BOOLEAN, makedirs_ok : BOOLEAN,
                spawn : {"ok", "FileNotFoundError", "PermissionError"},
                cwd : {"/work"}]
    /\ pc = "Validating"
    /\ total_frames = 0
    /\ crf_value = ""
    /\ command = <<>>
    /\ output = <<>>
    /\ exit_code = -1
    /\ spawns = 0
    /\ host = [state |-> "none", arg |-> 0, status |-> 0]
    /\ scene \in [resolution_x : {1920}, resolution_y : {1080}, fps : {24},
                  frame_end : HostFrameEnds, file_format : {"PNG"},
                  filepath : {<<"/tmp/">>}, ffmpeg_format : {"MPEG4"},
                  ffmpeg_codec : {"H264"},
                  ffmpeg_constant_rate_factor : {"MEDIUM"},
                  engine : {"BLENDER_EEVEE_NEXT"}]
    /\ GRID_SIZE \in GridSizes
    /\ spc = "idle"
    /\ anim_end_frame = 0
    /\ objects = <<>>
    /\ i = 0
    /\ start_coord = <<0, 0, 0>>
    /\ end_coord = <<0, 0, 0>>
    /\ start_frame = 0
    /\ packet = NoObject
    /\ anim_coll = <<>>
    /\ pivot = NoObject

Next ==
    \/ Validate
    \/ Assemble
    \/ Invoke
    \/ Reap
    \/ HostBackground
    \/ HostPython
    \/ HostRenderFormat
    \/ HostRenderOutput
    \/ HostPythonExpr
    \/ HostRenderAnim
    \/ CleanScene
    \/ ReadFrameEnd
    \/ CreateGrid
    \/ CreateChiplets
    \/ CreateCoolingGrid
    \/ PickCoords
    \/ Reroll
    \/ MakePacket
    \/ NextPacket
    \/ CameraRig
    \/ FinalSetup

Spec == Init /\ [][Next]_vars

(***************************************************************************)
(* Properties of the launcher                                              *)
(***************************************************************************)
Printed(line) == \E k \in 1..Len(output) : output[k] = line

SuccessPrinted ==
    \/ Printed(<<"SUCCESS: Render complete.">>)
    \/ \E k \in 1..Len(output) : Head(output[k]) = "Video saved to: "

HostSpawned == spawns > 0 \/ ~(host.state = "none") \/ ~(spc = "idle")

\* C1: in a run whose --input-script path does not exist, the launcher,
\* once past its check, has exited with code 1; it never assembles or
\* invokes anything and the host application is never spawned.
C1_MissingInputScriptExits1 ==
    ~env.input_script_exists =>
        /\ pc \in {"Validating", "Exited"}
        /\ pc = "Exited" => exit_code = 1
        /\ ~HostSpawned
        /\ command = <<>>

C1_Witness ==
    /\ ~env.input_script_exists
    /\ pc = "Exited"
    /\ exit_code = 1
    /\ Printed(<<"Error: Input script not found at '", args.input_script, "'">>)

\* C2: a run that reaches Invoking spawns the host at most once and its
\* outcome is final: success and the output path are reported, with exit
\* code 0, exactly when the host exited with status 0; a missing
\* executable or a non-zero host status gives exit code 1 with the
\* failure diagnostic, no success message and no second spawn.
C2_OutcomeIsTerminal ==
    /\ spawns <= 1
    /\ SuccessPrinted => (host.state = "exited" /\ host.status = 0)
    /\ (pc = "Exited" /\ ~(command = <<>>)) =>
          /\ exit_code \in {0, 1}
          /\ (exit_code = 0) <=> (host.state = "exited" /\ host.status = 0)
          /\ (exit_code = 0) <=>
                (/\ Printed(<<"SUCCESS: Render complete.">>)
                 /\ Printed(<<"Video saved to: ", args.output_path>>))
          /\ env.spawn = "FileNotFoundError" =>
                /\ exit_code = 1
                /\ spawns = 0
                /\ Printed(<<"--- ERROR: Blender executable not found at '",
                             args.blender_path, "'. ---">>)
                /\ ~SuccessPrinted
          /\ (host.state = "exited" /\ ~(host.status = 0)) =>
                /\ exit_code = 1
                /\ spawns = 1
                /\ Printed(<<"--- ERROR: Blender returned a non-zero exit code. ---">>)
                /\ ~SuccessPrinted

C2_Witness ==
    /\ pc = "Exited"
    /\ host.state = "exited"
    /\ host.status < 0
    /\ exit_code = 1
    /\ spawns = 1

\* C3: the quality token the launcher puts into the host's command line is
\* the literal MEDIUM when the codec is AV1 and the --crf value, unchanged,
\* for any other codec.
C3_QualityToken ==
    ~(command = <<>>) =>
        LET expr == command[Len(command) - 1] IN
        /\ command[Len(command) - 2] = <<"--python-expr">>
        /\ Len(expr) = 3
        /\ expr[1] = "import bpy; bpy.context.scene.render.ffmpeg.constant_rate_factor = '"
        /\ expr[3] = "'"
        /\ args.codec = "AV1" => expr[2] = "MEDIUM"
        /\ ~(args.codec = "AV1") => expr[2] = args.crf

C3_Witness ==
    /\ pc = "Invoking"
    /\ args.codec = "H264"
    /\ args.crf = "28"
    /\ command[Len(command) - 1][2] = "28"

(***************************************************************************)
(* Properties of the scene generator                                       *)
(***************************************************************************)
Frames(track) == {k.frame : k \in track}
CallsOn(obj, data_path) == SelectSeq(obj.calls, LAMBDA c : c.data_path = data_path)
Position(coord) == <<coord[1] * SPACING, coord[2] * SPACING, coord[3] * SPACING>>
PivotAnimated == spc \in {"final_setup", "done"}

\* C4: when the scene script reads the end frame back from the host, the
\* launcher's total_frames = fps * duration is already set, so the pivot's
\* rotation keyframes are exactly (0, 0) and (total_frames, 2 pi), linear.
C4_PivotSpansTotalFrames ==
    PivotAnimated =>
        /\ total_frames = args.fps * args.duration
        /\ anim_end_frame = total_frames
        /\ pivot.tracks["rotation_euler"] =
              { [frame |-> 0, value |-> <<0, 0, 0>>,
                 interpolation |-> <<"BEZIER", "BEZIER", "LINEAR">>],
                [frame |-> total_frames, value |-> <<0, 0, 2>>,
                 interpolation |-> <<"BEZIER", "BEZIER", "LINEAR">>] }

\* The three frames after start_frame at which the route's segments end
RouteFrames ==
    LET fx == start_frame + PACKET_TRAVEL_TIME * Abs(end_coord[1] - start_coord[1])
        fy == fx + PACKET_TRAVEL_TIME * Abs(end_coord[2] - start_coord[2])
        fz == fy + PACKET_TRAVEL_TIME * Abs(end_coord[3] - start_coord[3])
    IN  <<start_frame, fx, fy, fz>>

RoutePositions ==
    << Position(start_coord),
       Position(<<end_coord[1], start_coord[2], start_coord[3]>>),
       Position(<<end_coord[1], end_coord[2], start_coord[3]>>),
       Position(end_coord) >>

NonZeroDeltas == {a \in 1..3 : ~(start_coord[a] = end_coord[a])}

\* C5 as stated: the location track is left with exactly 4 keyframes, at
\* start_frame and at the ends of the X, Y and Z segments.
C5_FourLocationKeyframes ==
    spc = "packet_made" =>
        /\ Cardinality(packet.tracks["location"]) = 4
        /\ Frames(packet.tracks["location"]) = {RouteFrames[k] : k \in 1..4}

\* C5 as amended: animate_packet_route keys the location 4 times, in the
\* order start, after-X, after-Y, after-Z, at frames start_frame,
\* + PACKET_TRAVEL_TIME*|dx|, + PACKET_TRAVEL_TIME*|dy|,
\* + PACKET_TRAVEL_TIME*|dz|; the track is left with one keyframe per
\* distinct frame among them, 1 + the number of non-zero deltas, hence
\* exactly 4 only when the route moves along all three axes.
C5_LocationKeyframesAmended ==
    spc = "packet_made" =>
        LET calls == CallsOn(packet, "location") IN
        /\ Len(calls) = 4
        /\ \A k \in 1..4 :
              /\ calls[k].frame = RouteFrames[k]
              /\ calls[k].value = RoutePositions[k]
        /\ packet.location = Position(end_coord)
        /\ {<<k.frame, k.value>> : k \in packet.tracks["location"]} =
              {<<RouteFrames[k], RoutePositions[k]>> : k \in 1..4}
        /\ Cardinality(packet.tracks["location"]) = 1 + Cardinality(NonZeroDeltas)
        /\ Cardinality(packet.tracks["location"]) = 4 <=> NonZeroDeltas = {1, 2, 3}

C5_Witness ==
    /\ spc = "packet_made"
    /\ start_frame > 0
    /\ start_coord[1] = end_coord[1]
    /\ ~(start_coord[2] = end_coord[2])
    /\ Cardinality(packet.tracks["location"]) < 4
    /\ Len(CallsOn(packet, "location")) = 4

\* C6: the start and end coordinates handed to animate_packet_route lie
\* within the grid and differ, so the route keyed has a positive length.
C6_CoordsInGridAndDistinct ==
    spc = "packet_made" =>
        /\ \A c \in {start_coord, end_coord} :
              /\ 0 <= c[1] /\ c[1] < GRID_SIZE_X
              /\ 0 <= c[2] /\ c[2] < GRID_SIZE_Y
              /\ 0 <= c[3] /\ c[3] < GRID_SIZE_Z
        /\ ~(start_coord = end_coord)
        /\ LET calls == CallsOn(packet, "location") IN
              /\ ~(calls[1].value = calls[Len(calls)].value)
              /\ calls[1].frame < calls[Len(calls)].frame

C6_Witness ==
    /\ spc = "packet_made"
    /\ i = NUM_PACKETS - 1
    /\ ~(start_coord = end_coord)
    /\ start_coord[1] = end_coord[1]
    /\ start_coord[2] = end_coord[2]

GridBuilt == spc = "create_chiplets"          \* create_grid has just returned
InGrid(mesh) ==
    {k \in DOMAIN objects : objects[k].coll = "ForthGrid" /\ objects[k].data = mesh}
GridCells ==
    (0..(GRID_SIZE_X - 1)) \X (0..(GRID_SIZE_Y - 1)) \X (0..(GRID_SIZE_Z - 1))

\* C7: create_grid creates one core and one router per coordinate of the
\* grid, N^3 of each for a cubic grid of size N, each pair at
\* coordinate * SPACING, under pairwise distinct names.
C7_GridInstancing ==
    GridBuilt =>
        LET cores == InGrid("Base_ForthCore_Mesh")
            routers == InGrid("Base_NoCRouter_Mesh")
        IN
        /\ Cardinality(cores) = GRID_SIZE_X * GRID_SIZE_Y * GRID_SIZE_Z
        /\ Cardinality(routers) = GRID_SIZE_X * GRID_SIZE_Y * GRID_SIZE_Z
        /\ \A c \in GridCells :
              LET suffix == Str(c[1]) \o <<"_">> \o Str(c[2]) \o <<"_">> \o Str(c[3]) IN
              /\ {objects[k].name : k \in {j \in cores : objects[j].location = Position(c)}}
                    = {<<"Core_">> \o suffix}
              /\ {objects[k].name : k \in {j \in routers : objects[j].location = Position(c)}}
                    = {<<"Router_">> \o suffix}
              /\ Cardinality({k \in cores : objects[k].location = Position(c)}) = 1
              /\ Cardinality({k \in routers : objects[k].location = Position(c)}) = 1
        /\ \A k \in cores : objects[k + 1].location = objects[k].location
                            /\ k + 1 \in routers
        /\ \A k \in cores : Head(objects[k].name) = "Core_"
        /\ \A k \in routers : Head(objects[k].name) = "Router_"
        /\ \A j \in DOMAIN objects, k \in DOMAIN objects :
              ~(j = k) => ~(objects[j].name = objects[k].name)

C7_Witness ==
    /\ GridBuilt
    /\ GRID_SIZE_X = GRID_SIZE_Y
    /\ GRID_SIZE_Y = GRID_SIZE_Z
    /\ GRID_SIZE_X > 1
    /\ Cardinality(InGrid("Base_ForthCore_Mesh")) = GRID_SIZE_X * GRID_SIZE_X * GRID_SIZE_X

CoolingBuilt == spc = "packet_loop" /\ i = 0  \* create_cooling_grid has returned
Plates == {k \in DOMAIN objects : objects[k].coll = "CoolingGrid"}
PlatesOn(axis) == {k \in Plates : Head(objects[k].name) = axis}

\* C8: create_cooling_grid creates size - 1 plates per axis, N - 1 on each
\* and 3 * (N - 1) in all for a cubic grid of size N; every plate
\* references the one plate mesh, and no two plates have the same
\* location and scale.
C8_CoolingPlates ==
    CoolingBuilt =>
        /\ Cardinality(PlatesOn("Plate_Z_")) = GRID_SIZE_Z - 1
        /\ Cardinality(PlatesOn("Plate_Y_")) = GRID_SIZE_Y - 1
        /\ Cardinality(PlatesOn("Plate_X_")) = GRID_SIZE_X - 1
        /\ Cardinality(Plates) = (GRID_SIZE_X - 1) + (GRID_SIZE_Y - 1) + (GRID_SIZE_Z - 1)
        /\ (GRID_SIZE_X = GRID_SIZE_Y /\ GRID_SIZE_Y = GRID_SIZE_Z) =>
              Cardinality(Plates) = 3 * (GRID_SIZE_X - 1)
        /\ \A k \in Plates : objects[k].data = "BasePlate_Mesh"
        /\ \A k \in DOMAIN objects :
              objects[k].data = "BasePlate_Mesh" => k \in Plates
        /\ \A j \in Plates, k \in Plates :
              ~(j = k) => ~(<<objects[j].location, objects[j].scale>> =
                            <<objects[k].location, objects[k].scale>>)

C8_Witness ==
    /\ CoolingBuilt
    /\ GRID_SIZE_X = GRID_SIZE_Y
    /\ GRID_SIZE_Y = GRID_SIZE_Z
    /\ GRID_SIZE_X > 1
    /\ Cardinality(Plates) = 3 * (GRID_SIZE_X - 1)

AllFrames(obj) == UNION {Frames(obj.tracks[p]) : p \in DOMAIN obj.tracks}

\* C9: total_frames = fps * duration and every keyframe the scene script
\* inserts (packet visibility, packet location, pivot rotation) lies at a
\* frame f with 0 <= f <= total_frames.
C9_KeyframesWithinTimeline ==
    ~(spc = "idle") =>
        /\ total_frames = args.fps * args.duration
        /\ \A f \in AllFrames(packet) \cup AllFrames(pivot) :
              0 <= f /\ f <= total_frames

\* The value a property keyed with constant interpolation has at frame f
HiddenAt(track, f) ==
    LET before == {k \in track : k.frame <= f} IN
    IF before = {}
    THEN (CHOOSE k \in track : \A o \in track : k.frame <= o.frame).value
    ELSE (CHOOSE k \in before : \A o \in before : o.frame <= k.frame).value

\* C10: each visibility property of a packet is keyed hidden at
\* start_frame - 1, visible at start_frame and hidden again one frame
\* after the last location keyframe, in this order and at strictly
\* increasing frames, so the packet is shown from start_frame to the end
\* of its last segment and hidden before and after.
C10_VisibilityWindow ==
    spc = "packet_made" =>
        LET last == RouteFrames[4] IN
        /\ \A k \in packet.tracks["location"] : k.frame <= last
        /\ \E k \in packet.tracks["location"] : k.frame = last
        /\ start_frame - 1 < start_frame /\ start_frame < last + 1
        /\ \A p \in {"hide_viewport", "hide_render"} :
              /\ CallsOn(packet, p) =
                    << [data_path |-> p, frame |-> start_frame - 1, value |-> TRUE],
                       [data_path |-> p, frame |-> start_frame, value |-> FALSE],
                       [data_path |-> p, frame |-> last + 1, value |-> TRUE] >>
              /\ Frames(packet.tracks[p]) = {start_frame - 1, start_frame, last + 1}
              /\ Cardinality(packet.tracks[p]) = 3
              /\ \A f \in (start_frame - 2)..(last + 2) :
                    HiddenAt(packet.tracks[p], f) <=> (f < start_frame \/ f > last)

C10_Witness ==
    /\ spc = "packet_made"
    /\ start_frame > 0
    /\ HiddenAt(packet.tracks["hide_render"], start_frame - 1)
    /\ ~HiddenAt(packet.tracks["hide_render"], RouteFrames[4])
    /\ HiddenAt(packet.tracks["hide_render"], RouteFrames[4] + 1)

====
